---- MODULE Spec2Model ----
(***************************************************************************)
(* Model of the UltraControl repository fragments:                         *)
(*   - the WebSocket event gateway                                         *)
(*     (packages/OpenHands-main/openhands/server/routes/websocket_events.py)*)
(*   - the subscription API and the application's catch-all error handler  *)
(*     (packages/devin-clone-mvp/backend/core/app/...).                    *)
(* Specification Spec is the gateway: one task per connection, interleaved *)
(* at the await points (accept, receive_text, send_text).                  *)
(* Specification SpecApi is the HTTP side: one request per step.           *)
(* Specification SpecBroadcast is one ConnectionManager.broadcast call      *)
(* among endpoint tasks that connect and disconnect at its send awaits.    *)
(***************************************************************************)
EXTENDS Integers, Sequences, FiniteSets, TLC

(***************************************************************************)
(* Bounds.                                                                 *)
(***************************************************************************)
\* Number of connection tasks (websocket_endpoint invocations).
MaxConns == 2

Conns == 1..MaxConns

\* The client_id query parameter of each connection; "unknown" is the default.
ClientIds == <<"unknown", "alice", "bob">>

client_id(c) == IF c \in DOMAIN ClientIds THEN ClientIds[c] ELSE "unknown"

(***************************************************************************)
(* Python values.  A value is a record with a single field naming its      *)
(* type, so values of different types are never equal.                     *)
(***************************************************************************)
PyStr(s) == [str |-> s]
PyInt(n) == [int |-> n]
PyNone == [none |-> TRUE]
PyList(l) == [list |-> l]
PyDict(d) == [dict |-> d]

IsStr(v) == DOMAIN v = {"str"}
IsInt(v) == DOMAIN v = {"int"}
IsNone(v) == DOMAIN v = {"none"}
IsList(v) == DOMAIN v = {"list"}
IsDict(v) == DOMAIN v = {"dict"}

\* type(v).__name__
TypeName(v) ==
    IF IsStr(v) THEN "str"
    ELSE IF IsInt(v) THEN "int"
    ELSE IF IsNone(v) THEN "NoneType"
    ELSE IF IsList(v) THEN "list"
    ELSE "dict"

\* The result of evaluating an expression: a value, or a raised exception.
Ok(v) == [raised |-> FALSE, value |-> v]
Raise(exc, msg) == [raised |-> TRUE, exc |-> exc, msg |-> msg]

\* Text around an occurrence of a needle in the JSON strings of Frames.
Affixes == {"", "my", "s"}

\* needle in s, for two Python strings.
IsSubstring(needle, s) == \E a, b \in Affixes : s = a \o needle \o b

\* key in container, key a str (the `in` operator).
PyIn(key, container) ==
    IF IsDict(container) THEN Ok(key \in DOMAIN container.dict)
    ELSE IF IsList(container)
      THEN Ok(\E i \in 1..Len(container.list) : container.list[i] = PyStr(key))
    ELSE IF IsStr(container) THEN Ok(IsSubstring(key, container.str))
    ELSE Raise("TypeError",
               "argument of type '" \o TypeName(container) \o "' is not iterable")

\* container[key], key a str (subscription).
PyGetItem(container, key) ==
    IF IsDict(container)
      THEN IF key \in DOMAIN container.dict
             THEN Ok(container.dict[key])
             ELSE Raise("KeyError", "'" \o key \o "'")
    ELSE IF IsList(container)
      THEN Raise("TypeError", "list indices must be integers or slices, not str")
    ELSE IF IsStr(container)
      THEN Raise("TypeError", "string indices must be integers, not 'str'")
    ELSE Raise("TypeError",
               "'" \o TypeName(container) \o "' object is not subscriptable")

\* d.get(key, default), d a dict.
PyDictGet(d, key, default) ==
    IF key \in DOMAIN d.dict THEN d.dict[key] ELSE default

\* left + right, right a str.
PyAdd(left, right) ==
    IF IsStr(left) THEN Ok(PyStr(left.str \o right.str))
    ELSE IF IsList(left)
      THEN Raise("TypeError", "can only concatenate list (not \"str\") to list")
    ELSE Raise("TypeError",
               "unsupported operand type(s) for +: '" \o TypeName(left)
                   \o "' and 'str'")

\* bool(v): the truth value tested by `if response:`.
Truthy(v) ==
    IF IsNone(v) THEN FALSE
    ELSE IF IsDict(v) THEN DOMAIN v.dict # {}
    ELSE IF IsList(v) THEN v.list # <<>>
    ELSE IF IsStr(v) THEN v.str # ""
    ELSE v.int # 0

(***************************************************************************)
(* Text frames a client sends, and json.loads on them.                     *)
(***************************************************************************)
F_NotJson == "not json"
F_Echo == "{\"type\":\"action\",\"actionType\":\"ECHO_ACTION\",\"eventId\":\"e1\",\"timestamp\":\"t1\",\"details\":{\"x\":1}}"
F_EchoNoDetails == "{\"type\":\"action\",\"actionType\":\"ECHO_ACTION\",\"eventId\":\"\",\"timestamp\":\"t2\"}"
F_EchoBare == "{\"type\":\"action\",\"actionType\":\"ECHO_ACTION\"}"
F_EchoIntId == "{\"type\":\"action\",\"actionType\":\"ECHO_ACTION\",\"eventId\":7,\"timestamp\":\"t1\"}"
F_Run == "{\"type\":\"action\",\"actionType\":\"RUN\",\"eventId\":\"e2\",\"details\":\"ls\"}"
F_NullAction == "{\"type\":\"action\",\"actionType\":null}"
F_Observation == "{\"type\":\"observation\",\"actionType\":\"ECHO_ACTION\"}"
F_Number == "42"
F_TypeString == "\"mytypes\""
F_TypeList == "[\"type\"]"

Frames ==
    { F_NotJson, F_Echo, F_EchoNoDetails, F_EchoBare, F_EchoIntId, F_Run,
      F_NullAction, F_Observation, F_Number, F_TypeString, F_TypeList }

\* json.loads(data) for the frames of Frames.
JsonLoads(data) ==
    CASE data = F_NotJson ->
           Raise("JSONDecodeError", "Expecting value: line 1 column 1 (char 0)")
      [] data = F_Echo ->
           Ok(PyDict([type |-> PyStr("action"), actionType |-> PyStr("ECHO_ACTION"),
                      eventId |-> PyStr("e1"), timestamp |-> PyStr("t1"),
                      details |-> PyDict([x |-> PyInt(1)])]))
      [] data = F_EchoNoDetails ->
           Ok(PyDict([type |-> PyStr("action"), actionType |-> PyStr("ECHO_ACTION"),
                      eventId |-> PyStr(""), timestamp |-> PyStr("t2")]))
      [] data = F_EchoBare ->
           Ok(PyDict([type |-> PyStr("action"), actionType |-> PyStr("ECHO_ACTION")]))
      [] data = F_EchoIntId ->
           Ok(PyDict([type |-> PyStr("action"), actionType |-> PyStr("ECHO_ACTION"),
                      eventId |-> PyInt(7), timestamp |-> PyStr("t1")]))
      [] data = F_Run ->
           Ok(PyDict([type |-> PyStr("action"), actionType |-> PyStr("RUN"),
                      eventId |-> PyStr("e2"), details |-> PyStr("ls")]))
      [] data = F_NullAction ->
           Ok(PyDict([type |-> PyStr("action"), actionType |-> PyNone]))
      [] data = F_Observation ->
           Ok(PyDict([type |-> PyStr("observation"),
                      actionType |-> PyStr("ECHO_ACTION")]))
      [] data = F_Number -> Ok(PyInt(42))
      [] data = F_TypeString -> Ok(PyStr("mytypes"))
      [] data = F_TypeList -> Ok(PyList(<<PyStr("type")>>))

\* Whether json.loads(data) raised JSONDecodeError.
JsonOutcome(data) ==
    IF JsonLoads(data).raised /\ JsonLoads(data).exc = "JSONDecodeError"
      THEN "bad_json" ELSE "parsed"

(***************************************************************************)
(* The event sink (EventStreamMock) and the envelopes of the gateway.      *)
(***************************************************************************)
\* Mutant: the sink echoes every action, whatever its actionType.
add_event_EchoAll(event, source) ==
    PyDict([observationType |-> PyStr("ECHO_OBSERVATION"),
            details |-> PyDictGet(event, "details", PyNone)])

\* EventStreamMock.add_event(event, source): the response, or None.
add_event(event, source) ==
    IF PyDictGet(event, "actionType", PyNone) = PyStr("ECHO_ACTION")
      THEN PyDict([observationType |-> PyStr("ECHO_OBSERVATION"),
                   details |-> PyDictGet(event, "details", PyNone)])
      ELSE PyNone

\* The source tag of a forwarded action: f"ws_client:{client_id}".
SourceTag(cid) == "ws_client:" \o cid

AckMessage == [status |-> PyStr("action_received_but_no_direct_response")]
InvalidFormatMessage ==
    [error |-> PyStr("Invalid message format, expected ActionPayload")]
InvalidJsonMessage == [error |-> PyStr("Invalid JSON format")]
ServerErrorMessage(msg) == [error |-> PyStr("Server error: " \o msg)]

\* The test of line 96:
\* "type" in m and m["type"] == "action" and "actionType" in m
IsActionPayload(m) ==
    LET hasType == PyIn("type", m) IN
    IF hasType.raised THEN hasType
    ELSE IF ~hasType.value THEN Ok(FALSE)
    ELSE LET type == PyGetItem(m, "type") IN
         IF type.raised THEN type
         ELSE IF type.value # PyStr("action") THEN Ok(FALSE)
         ELSE PyIn("actionType", m)

\* Mutant: without an eventId the observation's eventId is left empty.
ObservationPayload_EmptyDefault(message_data, response) ==
    LET eventId ==
          IF "eventId" \in DOMAIN message_data.dict
            THEN PyAdd(message_data.dict.eventId, PyStr("_obs"))
            ELSE Ok(PyStr("")) IN
    IF eventId.raised THEN eventId
    ELSE Ok([eventId |-> eventId.value,
             timestamp |-> PyDictGet(message_data, "timestamp", PyStr("")),
             source |-> PyStr("WebSocketGateway"),
             type |-> PyStr("observation"),
             observationType |-> PyDictGet(response, "observationType", PyNone),
             details |-> PyDictGet(response, "details", PyNone)])

\* Mutant: the observation reuses the action's eventId without the suffix.
ObservationPayload_SameId(message_data, response) ==
    Ok([eventId |-> PyDictGet(message_data, "eventId", PyStr("")),
        timestamp |-> PyDictGet(message_data, "timestamp", PyStr("")),
        source |-> PyStr("WebSocketGateway"),
        type |-> PyStr("observation"),
        observationType |-> PyDictGet(response, "observationType", PyNone),
        details |-> PyDictGet(response, "details", PyNone)])

\* observation_payload of lines 104-111; raises when eventId + "_obs" does.
ObservationPayload(message_data, response) ==
    LET eventId == PyAdd(PyDictGet(message_data, "eventId", PyStr("")),
                         PyStr("_obs")) IN
    IF eventId.raised THEN eventId
    ELSE Ok([eventId |-> eventId.value,
             timestamp |-> PyDictGet(message_data, "timestamp", PyStr("")),
             source |-> PyStr("WebSocketGateway"),
             type |-> PyStr("observation"),
             observationType |-> PyDictGet(response, "observationType", PyNone),
             details |-> PyDictGet(response, "details", PyNone)])

\* What handling one frame decides: the sink calls made, the message to send
\* and where it is sent from ("try": lines 112, 115, 119; "except": lines 123,
\* 126), or an exception that escapes the per-frame try statement.
Handled(calls, message, site) ==
    [escaped |-> FALSE, calls |-> calls, message |-> message, site |-> site]
Escaped(calls, msg) == [escaped |-> TRUE, calls |-> calls, msg |-> msg]

\* Mutant: the JSON error handler re-raises instead of replying.
OnJSONDecodeError_Reraise(calls, msg) == Escaped(calls, msg)

\* except json.JSONDecodeError (lines 121-123).
OnJSONDecodeError(calls, msg) == Handled(calls, InvalidJsonMessage, "except")

\* Mutant: no generic except clause in the per-frame try statement.
OnException_Reraise(calls, msg) == Escaped(calls, msg)

\* except Exception as e (lines 124-126).
OnException(calls, msg) == Handled(calls, ServerErrorMessage(msg), "except")

\* The body of the per-frame try statement (lines 92-126), up to the send.
HandleFrame(data, cid) ==
    LET parsed == JsonLoads(data) IN
    IF parsed.raised
      THEN IF parsed.exc = "JSONDecodeError"
             THEN OnJSONDecodeError(<<>>, parsed.msg)
             ELSE OnException(<<>>, parsed.msg)
    ELSE
    LET message_data == parsed.value
        isAction == IsActionPayload(message_data) IN
    IF isAction.raised THEN OnException(<<>>, isAction.msg)
    ELSE IF ~isAction.value THEN Handled(<<>>, InvalidFormatMessage, "try")
    ELSE
    LET source == SourceTag(cid)
        call == [event |-> message_data, source |-> source]
        response == add_event(message_data, source) IN
    IF ~Truthy(response) THEN Handled(<<call>>, AckMessage, "try")
    ELSE
    LET payload == ObservationPayload(message_data, response) IN
    IF payload.raised THEN OnException(<<call>>, payload.msg)
    ELSE Handled(<<call>>, payload.value, "try")

(***************************************************************************)
(* ConnectionManager.                                                      *)
(***************************************************************************)
\* list.remove(x): the list without the first occurrence of x; ValueError
\* when x is not in the list.
RECURSIVE ListRemove(_, _)
ListRemove(l, x) ==
    IF l = <<>> THEN Raise("ValueError", "list.remove(x): x not in list")
    ELSE IF Head(l) = x THEN Ok(Tail(l))
    ELSE LET rest == ListRemove(Tail(l), x) IN
         IF rest.raised THEN rest ELSE Ok(<<Head(l)>> \o rest.value)

\* ConnectionManager.connect, after accept() has returned: append.
connect(connections, websocket) == Append(connections, websocket)

\* Mutant: disconnect drops the newest entry instead of its own.
disconnect_pop(connections, websocket) ==
    IF connections = <<>> THEN Raise("IndexError", "pop from empty list")
    ELSE Ok(SubSeq(connections, 1, Len(connections) - 1))

\* ConnectionManager.disconnect: the registry after remove, or the ValueError
\* that leaves the method when the websocket is not registered.
disconnect(connections, websocket) == ListRemove(connections, websocket)

\* The text of the error send_text raises on a closed connection.
SendFailureText == "Cannot call \"send\" once a close message has been sent."

\* Mutant: no try statement around send_text, a failure leaves the method.
send_personal_message_Raises(message, ok) ==
    [message |-> message, ok |-> ok, raised |-> ~ok, msg |-> SendFailureText]

\* ConnectionManager.send_personal_message(message, websocket), ok telling
\* whether send_text succeeds: the message written, the outcome, and whether
\* an exception leaves the method.  The except clause of lines 60-61 logs the
\* failure and returns.
send_personal_message(message, ok) ==
    [message |-> message, ok |-> ok, raised |-> FALSE, msg |-> SendFailureText]

(***************************************************************************)
(* State of the gateway.                                                   *)
(***************************************************************************)
VARIABLES
    active_connections, \* manager.active_connections: a list of connections
    pc,                 \* where each websocket_endpoint task stands
    data,               \* per task: the frame being handled, as <<text>>
    reply,              \* per task: the message being sent, as <<message>>
    sink_calls,         \* per task: add_event calls made for the frame in data
    send_results,       \* per task: whether each send attempt made for its
                        \* latest frame succeeded
    exit_path,          \* per task: the except clause that ended its loop
    last_completed      \* per task: how json.loads fared on the latest frame
                        \* whose handling is complete ("none": no such frame)

gatewayVars ==
    <<active_connections, pc, data, reply, sink_calls, send_results,
      exit_path, last_completed>>

\* State of the HTTP backend.
VARIABLES
    DEBUG,          \* settings.DEBUG
    current_user,   \* the authenticated caller's user record
    subscriptions,  \* stored Subscription rows
    payments,       \* stored Payment rows
    request,        \* the latest request: endpoint and body (or error text)
    response        \* the response to it: status_code and content

apiVars == <<DEBUG, current_user, subscriptions, payments, request, response>>

\* State of a ConnectionManager.broadcast call.
VARIABLES
    b_pc,          \* where the broadcast stands: "idle", "send" or "done"
    b_message,     \* its message argument, as <<message>>
    b_iter,        \* the list iterator of its for statement: items yielded
    b_connection,  \* its loop variable `connection`, as <<connection>>
    b_attempts,    \* the send_text calls it has awaited: connection and outcome
    b_at_call      \* the registry when it was called

broadcastVars ==
    <<b_pc, b_message, b_iter, b_connection, b_attempts, b_at_call>>

\* Positions of a task: "idle" before the request, "failed" when accept()
\* raised, "receive" awaiting receive_text, "send" awaiting the send of a
\* reply made in the try body, "send_in_except" awaiting the send of a reply
\* made in an except clause, "done" when the endpoint has ended (after the
\* finally clause, or by an error raised in it).
Positions == {"idle", "failed", "receive", "send", "send_in_except", "done"}

SendPositions == {"send", "send_in_except"}

GatewayInit ==
    /\ active_connections = <<>>
    /\ pc = [c \in Conns |-> "idle"]
    /\ data = [c \in Conns |-> <<>>]
    /\ reply = [c \in Conns |-> <<>>]
    /\ sink_calls = [c \in Conns |-> <<>>]
    /\ send_results = [c \in Conns |-> <<>>]
    /\ exit_path = [c \in Conns |-> "none"]
    /\ last_completed = [c \in Conns |-> "none"]

\* The except clause `how` of the outer try statement, then its finally
\* clause (lines 128-135): the task's locals are gone afterwards.  An error
\* raised by disconnect leaves the finally clause and the endpoint with the
\* registry as it was.
LoopEnds(c, how) ==
    LET removed == disconnect(active_connections, c) IN
    /\ active_connections' =
         IF removed.raised THEN active_connections ELSE removed.value
    /\ pc' = [pc EXCEPT ![c] = "done"]
    /\ exit_path' =
         [exit_path EXCEPT ![c] = IF removed.raised THEN removed.exc ELSE how]
    /\ data' = [data EXCEPT ![c] = <<>>]
    /\ reply' = [reply EXCEPT ![c] = <<>>]
    /\ sink_calls' = [sink_calls EXCEPT ![c] = <<>>]
    /\ send_results' = [send_results EXCEPT ![c] = <<>>]
    /\ last_completed' = [last_completed EXCEPT ![c] = "none"]

\* manager.connect(websocket) (line 77): accept() returns and the connection
\* is appended.
Connect(c) ==
    /\ pc[c] = "idle"
    /\ active_connections' = connect(active_connections, c)
    /\ pc' = [pc EXCEPT ![c] = "receive"]
    /\ UNCHANGED <<data, reply, sink_calls, send_results, exit_path,
                   last_completed>>
    /\ UNCHANGED apiVars
    /\ UNCHANGED broadcastVars

\* accept() raises: the endpoint ends before its try statement.
AcceptFails(c) ==
    /\ pc[c] = "idle"
    /\ pc' = [pc EXCEPT ![c] = "failed"]
    /\ UNCHANGED <<active_connections, data, reply, sink_calls, send_results,
                   exit_path, last_completed>>
    /\ UNCHANGED apiVars
    /\ UNCHANGED broadcastVars

\* Mutant: the reply's send runs as a task of its own, and the loop takes the
\* next frame without awaiting it.
ReceiveText_Pipelined(c, text) ==
    LET h == HandleFrame(text, client_id(c)) IN
    /\ pc[c] \in {"receive", "send", "send_in_except"}
    /\ ~h.escaped
    /\ pc' = [pc EXCEPT ![c] = IF h.site = "try" THEN "send" ELSE "send_in_except"]
    /\ data' = [data EXCEPT ![c] = <<text>>]
    /\ reply' = [reply EXCEPT ![c] = <<h.message>>]
    /\ sink_calls' = [sink_calls EXCEPT ![c] = h.calls]
    /\ send_results' = [send_results EXCEPT ![c] = <<>>]
    /\ UNCHANGED <<active_connections, exit_path, last_completed>>
    /\ UNCHANGED apiVars
    /\ UNCHANGED broadcastVars

\* receive_text() returns text (line 90) and the frame is handled up to the
\* await of its reply's send (lines 91-126).
ReceiveText(c, text) ==
    LET h == HandleFrame(text, client_id(c)) IN
    /\ pc[c] = "receive"
    /\ IF h.escaped
         THEN LoopEnds(c, "Exception in frame")
         ELSE /\ pc' = [pc EXCEPT
                          ![c] = IF h.site = "try" THEN "send"
                                 ELSE "send_in_except"]
              /\ data' = [data EXCEPT ![c] = <<text>>]
              /\ reply' = [reply EXCEPT ![c] = <<h.message>>]
              /\ sink_calls' = [sink_calls EXCEPT ![c] = h.calls]
              /\ send_results' = [send_results EXCEPT ![c] = <<>>]
              /\ UNCHANGED <<active_connections, exit_path, last_completed>>
    /\ UNCHANGED apiVars
    /\ UNCHANGED broadcastVars

\* receive_text() raises WebSocketDisconnect (lines 128-129, 132-135).
ReceiveDisconnect(c) ==
    /\ pc[c] = "receive"
    /\ LoopEnds(c, "WebSocketDisconnect")
    /\ UNCHANGED apiVars
    /\ UNCHANGED broadcastVars

\* Mutant: the cleanup sits in the WebSocketDisconnect clause, not in finally.
ReceiveError_NoFinally(c) ==
    /\ pc[c] = "receive"
    /\ pc' = [pc EXCEPT ![c] = "done"]
    /\ exit_path' = [exit_path EXCEPT ![c] = "Exception in receive"]
    /\ data' = [data EXCEPT ![c] = <<>>]
    /\ send_results' = [send_results EXCEPT ![c] = <<>>]
    /\ last_completed' = [last_completed EXCEPT ![c] = "none"]
    /\ UNCHANGED <<active_connections, reply, sink_calls>>
    /\ UNCHANGED apiVars
    /\ UNCHANGED broadcastVars

\* receive_text() raises another exception (lines 130-131, 132-135).
ReceiveError(c) ==
    /\ pc[c] = "receive"
    /\ LoopEnds(c, "Exception in receive")
    /\ UNCHANGED apiVars
    /\ UNCHANGED broadcastVars

\* The awaited send_personal_message(reply, websocket) completes, send_text
\* having succeeded (ok) or raised.  When it returns, the loop is back at
\* receive_text and the frame's locals are dead.  An exception leaving it from
\* the try body reaches `except Exception` (line 124); one leaving it from an
\* except clause escapes the per-frame try statement and ends the loop (line
\* 130).
SendReply(c, ok) ==
    LET r == send_personal_message(reply[c][1], ok) IN
    /\ pc[c] \in SendPositions
    /\ IF ~r.raised
         THEN /\ pc' = [pc EXCEPT ![c] = "receive"]
              /\ send_results' = [send_results EXCEPT ![c] = Append(@, r.ok)]
              /\ data' = [data EXCEPT ![c] = <<>>]
              /\ reply' = [reply EXCEPT ![c] = <<>>]
              /\ sink_calls' = [sink_calls EXCEPT ![c] = <<>>]
              /\ last_completed' =
                   [last_completed EXCEPT ![c] = JsonOutcome(data[c][1])]
              /\ UNCHANGED <<active_connections, exit_path>>
         ELSE IF pc[c] = "send"
           THEN /\ pc' = [pc EXCEPT ![c] = "send_in_except"]
                /\ send_results' = [send_results EXCEPT ![c] = Append(@, r.ok)]
                /\ reply' = [reply EXCEPT ![c] = <<ServerErrorMessage(r.msg)>>]
                /\ UNCHANGED <<active_connections, data, sink_calls, exit_path,
                               last_completed>>
           ELSE LoopEnds(c, "Exception in frame")
    /\ UNCHANGED apiVars
    /\ UNCHANGED broadcastVars

GatewayNext ==
    \E c \in Conns :
        \/ Connect(c)
        \/ AcceptFails(c)
        \/ \E text \in Frames : ReceiveText(c, text)
        \/ ReceiveDisconnect(c)
        \/ ReceiveError(c)
        \/ \E ok \in BOOLEAN : SendReply(c, ok)

(***************************************************************************)
(* ConnectionManager.broadcast (lines 64-70), called by a task of its own  *)
(* while the endpoint tasks connect and disconnect.                        *)
(***************************************************************************)
\* Messages a caller broadcasts.
BroadcastMessages ==
    { [type |-> PyStr("notice"), text |-> PyStr("restart")],
      [status |-> PyStr("ping")] }

BroadcastInit ==
    /\ b_pc = "idle"
    /\ b_message = <<>>
    /\ b_iter = 0
    /\ b_connection = <<>>
    /\ b_attempts = <<>>
    /\ b_at_call = <<>>

\* next() on a list iterator that has yielded iter items: the item at that
\* index of the list as it is now, or StopIteration when the index has reached
\* the list's present length.
ListIterNext(list, iter) ==
    IF iter < Len(list)
      THEN [stop |-> FALSE, item |-> <<list[iter + 1]>>, iter |-> iter + 1]
      ELSE [stop |-> TRUE, item |-> <<>>, iter |-> iter]

\* `for connection in self.active_connections:` (line 66) asks its iterator
\* for the next connection and enters the body, or ends the loop.
ForConnection(iter) ==
    LET n == ListIterNext(active_connections, iter) IN
    /\ b_iter' = n.iter
    /\ b_connection' = n.item
    /\ b_pc' = IF n.stop THEN "done" ELSE "send"

\* Mutant: no try statement in the loop body, a failed send ends broadcast.
broadcast_except_Raises(ok) ==
    IF ok THEN ForConnection(b_iter)
    ELSE /\ b_pc' = "done"
         /\ b_connection' = <<>>
         /\ b_iter' = b_iter

\* The rest of the loop body after the awaited send_text (lines 67-70):
\* `except Exception` logs a failure, and the loop goes on either way.
broadcast_except(ok) == ForConnection(b_iter)

\* manager.broadcast(message) is called: the iterator is made and the loop
\* runs to the await of its first send_text, or ends on an empty registry.
BroadcastCall(message) ==
    /\ b_pc = "idle"
    /\ b_message' = <<message>>
    /\ b_at_call' = active_connections
    /\ b_attempts' = <<>>
    /\ ForConnection(0)
    /\ UNCHANGED gatewayVars
    /\ UNCHANGED apiVars

\* The awaited connection.send_text(json.dumps(message)) completes, having
\* succeeded (ok) or raised, and the loop runs to its next await or ends.
BroadcastSendText(ok) ==
    /\ b_pc = "send"
    /\ b_attempts' =
         Append(b_attempts, [connection |-> b_connection[1], ok |-> ok])
    /\ broadcast_except(ok)
    /\ UNCHANGED <<b_message, b_at_call>>
    /\ UNCHANGED gatewayVars
    /\ UNCHANGED apiVars

\* Endpoint tasks open and close connections around one broadcast.  Frame
\* handling reads and writes neither the registry nor the broadcast.
BroadcastNext ==
    \/ \E c \in Conns : Connect(c)
    \/ \E c \in Conns : AcceptFails(c)
    \/ \E c \in Conns : ReceiveDisconnect(c)
    \/ \E c \in Conns : ReceiveError(c)
    \/ \E message \in BroadcastMessages : BroadcastCall(message)
    \/ \E ok \in BOOLEAN : BroadcastSendText(ok)

(***************************************************************************)
(* The HTTP backend: settings, the current user, the subscription          *)
(* endpoints and the catch-all exception handler.                          *)
(***************************************************************************)
\* Largest number of projects a user owns.
MaxProjects == 2

\* Members of SubscriptionPlan.
SubscriptionPlans == {"FREE", "PRO"}

\* SubscriptionPlan.<member>.value
SubscriptionPlanValue(plan) == IF plan = "FREE" THEN "free" ELSE "pro"

\* total_size_kb of a project.
ProjectSizes == {512, 1024, 1536}

\* tokens_used and tokens_limit of a user.
TokenCounts == {0, 500, 1000}

\* The lists of at most n project sizes.
RECURSIVE ProjectLists(_)
ProjectLists(n) ==
    IF n = 0 THEN {<<>>}
    ELSE ProjectLists(n - 1)
           \cup {Append(l, k) : l \in {x \in ProjectLists(n - 1) : Len(x) = n - 1},
                                k \in ProjectSizes}

\* The user records get_current_user may yield.
Users ==
    [subscription_plan : SubscriptionPlans,
     tokens_used : TokenCounts,
     tokens_limit : {1000},
     projects : ProjectLists(MaxProjects)]

\* Request bodies: none, one the endpoint's request schema rejects, one it
\* accepts.
Bodies == {"absent", "rejected", "conforming"}

\* str(exc) of errors no other handler takes.
ErrorTexts == {"division by zero", "database is locked", "An error occurred"}

NoRequest == [endpoint |-> "none", body |-> "absent"]
NoResponse == [status_code |-> 0, content |-> [detail |-> ""]]

ApiInit ==
    /\ DEBUG \in BOOLEAN
    /\ current_user \in Users
    /\ subscriptions = {}
    /\ payments = {}
    /\ request = NoRequest
    /\ response = NoResponse

\* The backend before any request, as the gateway's specification holds it.
ApiQuiet ==
    /\ DEBUG = TRUE
    /\ current_user = [subscription_plan |-> "FREE", tokens_used |-> 0,
                       tokens_limit |-> 1000, projects |-> <<>>]
    /\ subscriptions = {}
    /\ payments = {}
    /\ request = NoRequest
    /\ response = NoResponse

\* sum(p.total_size_kb for p in projects)
RECURSIVE SumSizes(_)
SumSizes(projects) ==
    IF projects = <<>> THEN 0 ELSE Head(projects) + SumSizes(Tail(projects))

\* a / b on two ints: the float a/b, kept as the exact quotient.
TrueDiv(a, b) == [float_num |-> a, float_den |-> b]

\* The usage dict of get_subscription_info (lines 55-62).
Usage(user) ==
    [projects |-> Len(user.projects),
     max_projects |-> IF user.subscription_plan = "FREE" THEN 1 ELSE -1,
     tokens_used |-> user.tokens_used,
     tokens_limit |-> user.tokens_limit,
     storage_used_mb |-> IF user.projects # <<>>
                           THEN TrueDiv(SumSizes(user.projects), 1024)
                           ELSE PyInt(0),
     storage_limit_mb |-> IF user.subscription_plan = "FREE" THEN 10 ELSE 1024]

\* Mutant: the storage limit of the free plan is given to every plan.
get_subscription_info_FreeLimits(user) ==
    [status_code |-> 200,
     content |-> [has_subscription |-> FALSE,
                  subscription |-> PyNone,
                  current_plan |-> SubscriptionPlanValue(user.subscription_plan),
                  can_upgrade |-> user.subscription_plan = "FREE",
                  usage |-> [Usage(user) EXCEPT !.storage_limit_mb = 10]]]

\* get_subscription_info (lines 45-70): the response for the current user.
get_subscription_info(user) ==
    [status_code |-> 200,
     content |-> [has_subscription |-> FALSE,
                  subscription |-> PyNone,
                  current_plan |-> SubscriptionPlanValue(user.subscription_plan),
                  can_upgrade |-> user.subscription_plan = "FREE",
                  usage |-> Usage(user)]]

\* raise HTTPException(status_code, detail), as the client sees it.
HTTPException(status_code, detail) ==
    [status_code |-> status_code, content |-> [detail |-> detail]]

\* The response to a body the endpoint's request schema does not accept: the
\* handler is not called.
RequestValidationError ==
    [status_code |-> 422, content |-> [detail |-> "request validation failed"]]

\* Whether the body parameter declared by the handler accepts the body.
BodyAccepted(body) == body = "conforming"

\* Mutant: the checkout stub answers 501 Not Implemented.
create_checkout_session_501 ==
    /\ response' = HTTPException(501, "Payment processing is currently unavailable")
    /\ UNCHANGED <<current_user, subscriptions, payments>>

\* create_checkout_session (lines 73-86).
create_checkout_session ==
    /\ response' = HTTPException(503, "Payment processing is currently unavailable")
    /\ UNCHANGED <<current_user, subscriptions, payments>>

\* create_portal_session (lines 89-102).
create_portal_session ==
    /\ response' = HTTPException(503, "Customer portal is currently unavailable")
    /\ UNCHANGED <<current_user, subscriptions, payments>>

\* cancel_subscription (lines 105-117).
cancel_subscription ==
    /\ response' =
         HTTPException(503, "Subscription management is currently unavailable")
    /\ UNCHANGED <<current_user, subscriptions, payments>>

\* reactivate_subscription (lines 120-132).
reactivate_subscription ==
    /\ response' =
         HTTPException(503, "Subscription management is currently unavailable")
    /\ UNCHANGED <<current_user, subscriptions, payments>>

\* Mutant: the error text is returned whatever DEBUG is.
global_exception_handler_Leaky(exc) ==
    [status_code |-> 500,
     content |-> [detail |-> "Internal server error", message |-> exc]]

\* global_exception_handler(request, exc) (main.py lines 62-70), exc given by
\* str(exc).
global_exception_handler(exc) ==
    [status_code |-> 500,
     content |-> [detail |-> "Internal server error",
                  message |-> IF DEBUG THEN exc ELSE "An error occurred"]]

\* GET /subscription by the authenticated user.
GetSubscription ==
    /\ request' = [endpoint |-> "GET /subscription", body |-> "absent"]
    /\ response' = get_subscription_info(current_user)
    /\ UNCHANGED <<DEBUG, current_user, subscriptions, payments>>
    /\ UNCHANGED gatewayVars
    /\ UNCHANGED broadcastVars

\* POST /checkout with a body: the body is validated, then the handler runs.
PostCheckout(body) ==
    /\ request' = [endpoint |-> "POST /checkout", body |-> body]
    /\ IF BodyAccepted(body)
         THEN create_checkout_session
         ELSE /\ response' = RequestValidationError
              /\ UNCHANGED <<current_user, subscriptions, payments>>
    /\ UNCHANGED DEBUG
    /\ UNCHANGED gatewayVars
    /\ UNCHANGED broadcastVars

\* POST /portal with a body: the body is validated, then the handler runs.
PostPortal(body) ==
    /\ request' = [endpoint |-> "POST /portal", body |-> body]
    /\ IF BodyAccepted(body)
         THEN create_portal_session
         ELSE /\ response' = RequestValidationError
              /\ UNCHANGED <<current_user, subscriptions, payments>>
    /\ UNCHANGED DEBUG
    /\ UNCHANGED gatewayVars
    /\ UNCHANGED broadcastVars

\* POST /cancel: the handler declares no body parameter.
PostCancel(body) ==
    /\ request' = [endpoint |-> "POST /cancel", body |-> body]
    /\ cancel_subscription
    /\ UNCHANGED DEBUG
    /\ UNCHANGED gatewayVars
    /\ UNCHANGED broadcastVars

\* POST /reactivate: the handler declares no body parameter.
PostReactivate(body) ==
    /\ request' = [endpoint |-> "POST /reactivate", body |-> body]
    /\ reactivate_subscription
    /\ UNCHANGED DEBUG
    /\ UNCHANGED gatewayVars
    /\ UNCHANGED broadcastVars

\* A request whose handling raises an error no other handler takes.
UnhandledError(exc) ==
    /\ request' = [endpoint |-> "unhandled error", body |-> exc]
    /\ response' = global_exception_handler(exc)
    /\ UNCHANGED <<DEBUG, current_user, subscriptions, payments>>
    /\ UNCHANGED gatewayVars
    /\ UNCHANGED broadcastVars

ApiNext ==
    \/ GetSubscription
    \/ \E body \in Bodies : PostCheckout(body)
    \/ \E body \in Bodies : PostPortal(body)
    \/ \E body \in Bodies : PostCancel(body)
    \/ \E body \in Bodies : PostReactivate(body)
    \/ \E exc \in ErrorTexts : UnhandledError(exc)

(***************************************************************************)
(* Specifications.                                                         *)
(***************************************************************************)
vars == <<gatewayVars, apiVars, broadcastVars>>

Init == GatewayInit /\ ApiQuiet /\ BroadcastInit

Next == GatewayNext

\* The gateway.
Spec == Init /\ [][Next]_vars

InitApi == GatewayInit /\ ApiInit /\ BroadcastInit

NextApi == ApiNext

\* The HTTP backend.
SpecApi == InitApi /\ [][NextApi]_vars

NextBroadcast == BroadcastNext

\* A broadcast among connecting and disconnecting endpoint tasks.
SpecBroadcast == Init /\ [][NextBroadcast]_vars

(***************************************************************************)
(* Properties of the gateway (specification Spec).                         *)
(***************************************************************************)
\* c is an entry of the registry.
Registered(c) ==
    \E i \in 1..Len(active_connections) : active_connections[i] = c

\* The tasks whose connection was accepted and whose endpoint has not ended.
Live == {c \in Conns : pc[c] \in {"receive", "send", "send_in_except"}}

\* The task has a frame in hand and awaits the first send of its reply.
InFlight(c) == pc[c] \in SendPositions /\ send_results[c] = <<>>

\* The loop is back at receive_text after a frame.
Completed(c) == pc[c] = "receive" /\ last_completed[c] # "none"

\* No loop ended because an exception escaped the handling of a frame.
NoFrameEndsLoop == \A c \in Conns : exit_path[c] # "Exception in frame"

\* C1: once the endpoint task of an accepted connection has finished, by a
\* client disconnect or by any other error raised in the loop, the connection
\* is no longer in active_connections: the finally clause's disconnect found
\* and removed it, raising nothing.
C1_RemovedOnEveryExit ==
    \A c \in Conns :
        pc[c] = "done" => (~Registered(c) /\ exit_path[c] # "ValueError")

\* Both exits of the loop have been taken, each by one task.
C1_Witness ==
    \E c, d \in Conns :
        /\ pc[c] = "done" /\ exit_path[c] = "Exception in receive"
        /\ pc[d] = "done" /\ exit_path[d] = "WebSocketDisconnect"

\* C2: under any interleaving the registry holds exactly the accepted
\* connections whose task has not ended, each once, so with N accepted and M
\* of them ended its size is N - M.
C2_RegistryIsLive ==
    /\ {active_connections[i] : i \in 1..Len(active_connections)} = Live
    /\ Len(active_connections) = Cardinality(Live)
    /\ Len(active_connections) =
         Cardinality({c \in Conns : pc[c] \notin {"idle", "failed"}})
           - Cardinality({c \in Conns : pc[c] = "done"})

\* The first accepted of two connections has ended, the second is registered.
C2_Witness ==
    \E c, d \in Conns :
        /\ c < d
        /\ pc[c] = "done"
        /\ pc[d] = "send"
        /\ active_connections = <<d>>

\* C3: a frame that json.loads rejects is answered with
\* {"error": "Invalid JSON format"} and no sink call, the connection stays
\* open and registered with that one reply attempted, and the next frame is
\* handled as the same frame is on a connection that has handled none.
C3_InvalidJsonKeepsConnection ==
    /\ NoFrameEndsLoop
    /\ \A c \in Conns :
         /\ (pc[c] \in SendPositions /\ JsonOutcome(data[c][1]) = "bad_json") =>
              /\ reply[c] = <<[error |-> PyStr("Invalid JSON format")]>>
              /\ sink_calls[c] = <<>>
              /\ send_results[c] = <<>>
              /\ Registered(c)
         /\ (pc[c] = "receive" /\ last_completed[c] = "bad_json") =>
              /\ Registered(c)
              /\ Len(send_results[c]) = 1
              /\ exit_path[c] = "none"
    /\ \A c, d \in Conns :
         ( /\ InFlight(c) /\ last_completed[c] = "bad_json"
           /\ InFlight(d) /\ last_completed[d] = "none"
           /\ data[c] = data[d] ) =>
              /\ reply[c] = reply[d]
              /\ pc[c] = pc[d]
              /\ Len(sink_calls[c]) = Len(sink_calls[d])
              /\ \A i \in 1..Len(sink_calls[c]) :
                     sink_calls[c][i].event = sink_calls[d][i].event

\* After an invalid frame a connection handles the echo action, as does a
\* connection that handles it as its first frame.
C3_Witness ==
    \E c, d \in Conns :
        /\ last_completed[c] = "bad_json" /\ last_completed[d] = "none"
        /\ pc[c] = "send" /\ pc[d] = "send"
        /\ data[c] = <<F_Echo>> /\ data[d] = <<F_Echo>>
        /\ Registered(c)

\* The frames whose handling raises TypeError, with str(e) for each.
C4_Raising ==
    { <<F_Number, "argument of type 'int' is not iterable", 0>>,
      <<F_TypeString, "string indices must be integers, not 'str'", 0>>,
      <<F_TypeList, "list indices must be integers or slices, not str", 0>>,
      <<F_EchoIntId, "unsupported operand type(s) for +: 'int' and 'str'", 1>> }

\* C4: a frame whose handling raises an error other than a JSON parse failure
\* is answered from the per-frame except clause with
\* {"error": "Server error: <message>"}; the connection stays open and
\* registered and the loop returns to receive_text; no frame ends the loop.
C4_FrameErrorsAreCaught ==
    /\ NoFrameEndsLoop
    /\ \A c \in Conns :
         /\ \A t \in C4_Raising :
              (pc[c] \in SendPositions /\ data[c] = <<t[1]>>) =>
                 /\ pc[c] = "send_in_except"
                 /\ reply[c] = <<[error |-> PyStr("Server error: " \o t[2])]>>
                 /\ Len(sink_calls[c]) = t[3]
                 /\ Registered(c)
         /\ Completed(c) =>
              /\ Registered(c)
              /\ Len(send_results[c]) = 1
              /\ exit_path[c] = "none"

\* One connection is answering the echo action with an integer eventId while
\* another is back at receive_text after a frame json.loads accepted.
C4_Witness ==
    \E c, d \in Conns :
        /\ pc[c] = "send_in_except" /\ data[c] = <<F_EchoIntId>>
        /\ Len(sink_calls[c]) = 1
        /\ pc[d] = "receive" /\ last_completed[d] = "parsed"
        /\ Registered(d)

\* The frame is an action envelope with actionType ECHO_ACTION and string
\* eventId and timestamp.
C5_IsEcho(text) ==
    LET p == JsonLoads(text) IN
    /\ ~p.raised
    /\ IsDict(p.value)
    /\ {"type", "actionType", "eventId", "timestamp"} \subseteq DOMAIN p.value.dict
    /\ p.value.dict.type = PyStr("action")
    /\ p.value.dict.actionType = PyStr("ECHO_ACTION")
    /\ IsStr(p.value.dict.eventId)
    /\ IsStr(p.value.dict.timestamp)

\* The observation envelope the claim names for an echo action.
C5_Observation(text) ==
    LET a == JsonLoads(text).value.dict IN
    [eventId |-> PyStr(a.eventId.str \o "_obs"),
     timestamp |-> a.timestamp,
     source |-> PyStr("WebSocketGateway"),
     type |-> PyStr("observation"),
     observationType |-> PyStr("ECHO_OBSERVATION"),
     details |-> IF "details" \in DOMAIN a THEN a.details ELSE PyNone]

\* C5: an ECHO_ACTION envelope with string eventId e and timestamp t gets one
\* reply, the observation with eventId e + "_obs", timestamp t, source
\* "WebSocketGateway", type "observation", observationType "ECHO_OBSERVATION"
\* and the action's details (None when the action has none).
C5_EchoObservation ==
    \A c \in Conns :
        /\ (pc[c] \in SendPositions /\ C5_IsEcho(data[c][1])) =>
             /\ pc[c] = "send"
             /\ reply[c] = <<C5_Observation(data[c][1])>>
             /\ send_results[c] = <<>>
             /\ Len(sink_calls[c]) = 1
        /\ Completed(c) => Len(send_results[c]) = 1

\* The echo action of the specification's example is being answered, and a
\* connection has completed a frame.
C5_Witness ==
    \E c, d \in Conns :
        /\ pc[c] = "send" /\ data[c] = <<F_Echo>>
        /\ reply[c][1].eventId = PyStr("e1_obs")
        /\ reply[c][1].details = PyDict([x |-> PyInt(1)])
        /\ Completed(d) /\ send_results[d] = <<TRUE>>

\* The frame is an action envelope whose actionType is not "ECHO_ACTION".
C6_IsOtherAction(text) ==
    LET p == JsonLoads(text) IN
    /\ ~p.raised
    /\ IsDict(p.value)
    /\ {"type", "actionType"} \subseteq DOMAIN p.value.dict
    /\ p.value.dict.type = PyStr("action")
    /\ p.value.dict.actionType # PyStr("ECHO_ACTION")

\* C6: an action envelope with an actionType other than "ECHO_ACTION" is
\* forwarded once to the sink with source "ws_client:" + client_id, and the one
\* reply is {"status": "action_received_but_no_direct_response"}.
C6_OtherActionAcknowledged ==
    \A c \in Conns :
        /\ (pc[c] \in SendPositions /\ C6_IsOtherAction(data[c][1])) =>
             /\ pc[c] = "send"
             /\ sink_calls[c] =
                  <<[event |-> JsonLoads(data[c][1]).value,
                     source |-> "ws_client:" \o client_id(c)]>>
             /\ reply[c] =
                  <<[status |-> PyStr("action_received_but_no_direct_response")]>>
             /\ send_results[c] = <<>>
        /\ Completed(c) => Len(send_results[c]) = 1

\* The second client's RUN action is being acknowledged.
C6_Witness ==
    \E c \in Conns :
        /\ client_id(c) = "alice"
        /\ pc[c] = "send" /\ data[c] = <<F_Run>>
        /\ sink_calls[c][1].source = "ws_client:alice"

\* C10 as stated: a failed send of a reply made in the try body propagates to
\* the per-frame `except Exception`, which then sends the server error
\* envelope.
C10_SendFailurePropagates ==
    [][\A c \in Conns :
         (pc[c] = "send" /\ send_results'[c] = Append(send_results[c], FALSE)) =>
            /\ pc'[c] = "send_in_except"
            /\ reply'[c] = <<ServerErrorMessage(SendFailureText)>>]_vars

\* C10, amended: a failed send of a reply is caught inside
\* send_personal_message; no further envelope is attempted for the frame, the
\* connection stays registered and the loop returns to receive_text.
C10_SendFailureSwallowed ==
    /\ NoFrameEndsLoop
    /\ \A c \in Conns :
         /\ Len(send_results[c]) <= 1
         /\ pc[c] \in SendPositions => send_results[c] = <<>>
         /\ (pc[c] = "receive" /\ send_results[c] = <<FALSE>>) =>
              /\ Registered(c)
              /\ exit_path[c] = "none"
              /\ reply[c] = <<>>

\* A reply's send failed and the loop is back at receive_text.
C10_Witness ==
    \E c \in Conns :
        /\ pc[c] = "receive"
        /\ send_results[c] = <<FALSE>>
        /\ last_completed[c] = "parsed"
        /\ Registered(c)

\* The task is sending an observation envelope.
C12_SendsObservation(c) ==
    /\ pc[c] \in SendPositions
    /\ "type" \in DOMAIN reply[c][1]
    /\ reply[c][1].type = PyStr("observation")

\* The action the task's frame holds, as a dict.
C12_Action(c) == JsonLoads(data[c][1]).value.dict

\* C12 as stated: in an observation envelope eventId is the action's eventId
\* followed by "_obs" when the action supplied one and the empty string when
\* it supplied none; timestamp is the action's, or the empty string.
C12_EmptyIdWhenNoneSupplied ==
    \A c \in Conns :
        C12_SendsObservation(c) =>
            /\ reply[c][1].eventId =
                 IF "eventId" \in DOMAIN C12_Action(c)
                   THEN PyStr(C12_Action(c).eventId.str \o "_obs")
                   ELSE PyStr("")
            /\ reply[c][1].timestamp =
                 IF "timestamp" \in DOMAIN C12_Action(c)
                   THEN C12_Action(c).timestamp
                   ELSE PyStr("")

\* C12, amended: in an observation envelope eventId is the action's eventId
\* followed by "_obs" when the action supplied one and is "_obs" when it
\* supplied none; timestamp is the action's timestamp, or the empty string
\* when none was supplied.
C12_SuffixedIdAlways ==
    \A c \in Conns :
        C12_SendsObservation(c) =>
            /\ reply[c][1].eventId =
                 IF "eventId" \in DOMAIN C12_Action(c)
                   THEN PyStr(C12_Action(c).eventId.str \o "_obs")
                   ELSE PyStr("_obs")
            /\ reply[c][1].timestamp =
                 IF "timestamp" \in DOMAIN C12_Action(c)
                   THEN C12_Action(c).timestamp
                   ELSE PyStr("")

\* An echo action without eventId and timestamp is being answered, and so is
\* one that supplied both.
C12_Witness ==
    \E c, d \in Conns :
        /\ data[c] = <<F_EchoBare>> /\ C12_SendsObservation(c)
        /\ reply[c][1].eventId = PyStr("_obs")
        /\ reply[c][1].timestamp = PyStr("")
        /\ data[d] = <<F_Echo>> /\ C12_SendsObservation(d)
        /\ reply[d][1].eventId = PyStr("e1_obs")
        /\ reply[d][1].timestamp = PyStr("t1")

\* The locals of task c.
C13_Locals(c) == <<pc[c], data[c], reply[c], sink_calls[c], send_results[c]>>

\* m is an observation, the acknowledgment or one of the three error
\* envelopes.
C13_IsReply(m) ==
    \/ "type" \in DOMAIN m /\ m.type = PyStr("observation")
    \/ m = [status |-> PyStr("action_received_but_no_direct_response")]
    \/ m = [error |-> PyStr("Invalid message format, expected ActionPayload")]
    \/ m = [error |-> PyStr("Invalid JSON format")]
    \/ \E t \in C4_Raising : m = [error |-> PyStr("Server error: " \o t[2])]

\* C13: within one connection a frame is received only when no reply is
\* pending; each received frame gets one reply (an observation, the
\* acknowledgment or an error envelope) and at most one sink call, made on
\* receipt; exactly one send of that reply is attempted before the next
\* frame is received; and a step of one connection's task leaves every other
\* task where it is suspended.
C13_NoPipelining ==
    /\ [](\A c \in Conns :
            /\ Len(sink_calls[c]) <= 1
            /\ Len(send_results[c]) <= 1
            /\ pc[c] \in SendPositions =>
                 /\ Len(data[c]) = 1 /\ Len(reply[c]) = 1
                 /\ C13_IsReply(reply[c][1])
                 /\ send_results[c] = <<>>
            /\ pc[c] = "receive" =>
                 /\ data[c] = <<>> /\ reply[c] = <<>> /\ sink_calls[c] = <<>>
                 /\ Len(send_results[c]) =
                      IF last_completed[c] = "none" THEN 0 ELSE 1)
    /\ [][\A c \in Conns :
            /\ (data'[c] # data[c] /\ data'[c] # <<>>) =>
                  /\ pc[c] = "receive" /\ pc'[c] \in SendPositions
                  /\ reply[c] = <<>>
            /\ (sink_calls'[c] # sink_calls[c] /\ sink_calls'[c] # <<>>) =>
                  /\ pc[c] = "receive" /\ data'[c] # <<>>
            /\ (send_results'[c] # send_results[c] /\ send_results'[c] # <<>>) =>
                  /\ pc[c] \in SendPositions /\ pc'[c] = "receive"
                  /\ Len(send_results'[c]) = 1
            /\ (pc[c] \in SendPositions /\ pc'[c] # pc[c]) =>
                  /\ pc'[c] = "receive"
                  /\ Len(send_results'[c]) = 1
            /\ \A d \in Conns \ {c} :
                  C13_Locals(c)' # C13_Locals(c) => C13_Locals(d)' = C13_Locals(d)
        ]_vars

\* A connection has its second frame in hand, the first one's reply having
\* been attempted, while another connection awaits the send of a reply.
C13_Witness ==
    \E c, d \in Conns :
        /\ c # d
        /\ pc[c] = "send" /\ last_completed[c] = "parsed"
        /\ data[c] = <<F_Run>> /\ Len(sink_calls[c]) = 1
        /\ pc[d] = "send_in_except" /\ data[d] = <<F_NotJson>>

(***************************************************************************)
(* Properties of broadcast (specification SpecBroadcast).                  *)
(***************************************************************************)
\* c was registered when broadcast was called.
AtCall(c) == \E i \in 1..Len(b_at_call) : b_at_call[i] = c

\* c has been in the registry since broadcast was called: a connection is
\* appended once, by its own task, so it cannot have left and come back.
RegisteredThroughout(c) == AtCall(c) /\ Registered(c)

\* The number of send attempts the broadcast has made to c.
Attempts(c) ==
    Cardinality({i \in 1..Len(b_attempts) : b_attempts[i].connection = c})

\* C11: when a broadcast has ended, every connection that was in the registry
\* for its whole duration has received exactly one send attempt, whatever the
\* outcome of the sends to other connections and whichever tasks connected or
\* disconnected while it awaited a send.
C11_EveryRegisteredConnectionSent ==
    b_pc = "done" =>
        \A c \in Conns : RegisteredThroughout(c) => Attempts(c) = 1

\* A broadcast has ended without a send attempt to a connection that was
\* registered throughout: the connection sent to first left the registry
\* during the await of its send.
C11_Witness ==
    \E c, d \in Conns :
        /\ b_pc = "done"
        /\ b_at_call = <<c, d>>
        /\ b_attempts = <<[connection |-> c, ok |-> TRUE]>>
        /\ ~Registered(c)
        /\ RegisteredThroughout(d)
        /\ Attempts(d) = 0

\* C11, the part the code keeps: no connection gets two send attempts; the
\* loop ends only when its iterator is exhausted, never on a failed send; and
\* when no connection registered at the call has left, each of them has got
\* exactly one attempt by the end.
C11_NoAbortAtMostOnce ==
    /\ [](\A c \in Conns : Attempts(c) <= 1)
    /\ []( ( /\ b_pc = "done"
            /\ \A i \in 1..Len(b_at_call) : Registered(b_at_call[i]) ) =>
              \A i \in 1..Len(b_at_call) : Attempts(b_at_call[i]) = 1 )
    /\ [][(b_pc = "send" /\ b_pc' = "done") =>
            b_iter >= Len(active_connections)]_vars

(***************************************************************************)
(* Properties of the HTTP backend (specification SpecApi).                 *)
(***************************************************************************)
DisabledEndpoints ==
    {"POST /checkout", "POST /portal", "POST /cancel", "POST /reactivate"}

\* The fixed detail string of each disabled endpoint.
C7_Detail(endpoint) ==
    CASE endpoint = "POST /checkout" -> "Payment processing is currently unavailable"
      [] endpoint = "POST /portal" -> "Customer portal is currently unavailable"
      [] endpoint = "POST /cancel" ->
           "Subscription management is currently unavailable"
      [] endpoint = "POST /reactivate" ->
           "Subscription management is currently unavailable"

\* C7 as stated: each of POST /checkout, /portal, /cancel and /reactivate
\* answers 503 with its fixed detail string for any request body.
C7_Always503 ==
    request.endpoint \in DisabledEndpoints =>
        /\ response.status_code = 503
        /\ response.content.detail = C7_Detail(request.endpoint)

\* C7, amended: POST /cancel and /reactivate answer 503 with their fixed
\* detail for any body; POST /checkout and /portal answer 503 with their fixed
\* detail for every body their request schema accepts, and 422 without
\* running the handler otherwise; none of the four changes user, subscription
\* or payment state.
C7_503OnceValidated ==
    /\ [](request.endpoint \in DisabledEndpoints =>
            IF request.endpoint \in {"POST /cancel", "POST /reactivate"}
                 \/ request.body = "conforming"
              THEN /\ response.status_code = 503
                   /\ response.content.detail = C7_Detail(request.endpoint)
              ELSE response.status_code = 422)
    /\ [][request'.endpoint \in DisabledEndpoints =>
            UNCHANGED <<current_user, subscriptions, payments>>]_vars

\* A paying user's checkout with an accepted body has been refused with 503.
C7_Witness ==
    /\ request = [endpoint |-> "POST /checkout", body |-> "conforming"]
    /\ response.status_code = 503
    /\ current_user.subscription_plan = "PRO"

\* C8: an otherwise unhandled error is answered 500 with detail "Internal
\* server error"; with DEBUG off the message is "An error occurred" and the
\* responses to any two errors are equal; the error text is the message only
\* with DEBUG on.
C8_NoLeakWithoutDebug ==
    /\ request.endpoint = "unhandled error" =>
         /\ response.status_code = 500
         /\ response.content.detail = "Internal server error"
         /\ response.content.message =
              IF DEBUG THEN request.body ELSE "An error occurred"
    /\ ~DEBUG =>
         \A e1, e2 \in ErrorTexts :
             global_exception_handler(e1) = global_exception_handler(e2)
    /\ DEBUG =>
         \A e \in ErrorTexts : global_exception_handler(e).content.message = e

\* With DEBUG off, a database error has been answered without its text.
C8_Witness ==
    /\ ~DEBUG
    /\ request = [endpoint |-> "unhandled error", body |-> "database is locked"]
    /\ response.content.message = "An error occurred"

\* The sum of the first n sizes of a project list.
RECURSIVE C9_Total(_, _)
C9_Total(projects, n) ==
    IF n = 0 THEN 0 ELSE projects[n] + C9_Total(projects, n - 1)

\* The response of GET /subscription the claim describes.
C9_Response ==
    LET u == current_user
        free == u.subscription_plan = "FREE"
        r == response.content IN
    /\ response.status_code = 200
    /\ r.has_subscription = FALSE
    /\ r.subscription = PyNone
    /\ r.can_upgrade = free
    /\ r.usage.max_projects = (IF free THEN 1 ELSE -1)
    /\ r.usage.storage_limit_mb = (IF free THEN 10 ELSE 1024)
    /\ r.usage.projects = Len(u.projects)
    /\ r.usage.tokens_used = u.tokens_used
    /\ r.usage.tokens_limit = u.tokens_limit
    /\ r.usage.storage_used_mb =
         (IF Len(u.projects) = 0
            THEN PyInt(0)
            ELSE [float_num |-> C9_Total(u.projects, Len(u.projects)),
                  float_den |-> 1024])
    /\ ( /\ Len(u.projects) = 2
         /\ C9_Total(u.projects, 2) = 2048 ) =>
           r.usage.storage_used_mb.float_num = 2 * r.usage.storage_used_mb.float_den

\* C9: GET /subscription answers has_subscription false and no subscription;
\* can_upgrade, max_projects (1 or -1) and storage_limit_mb (10 or 1024)
\* depend on the plan being FREE alone; projects is the number of projects,
\* tokens_used and tokens_limit are the user's, storage_used_mb is the sum of
\* total_size_kb over 1024 (0 without projects); the user record is unchanged.
C9_SubscriptionInfo ==
    /\ [](request.endpoint = "GET /subscription" => C9_Response)
    /\ [][request'.endpoint = "GET /subscription" =>
            current_user' = current_user]_vars

\* The specification's example: a FREE user with two projects of 2048 KB in
\* all and 500 of 1000 tokens used has asked for the subscription info.
C9_Witness ==
    /\ request.endpoint = "GET /subscription"
    /\ current_user = [subscription_plan |-> "FREE", tokens_used |-> 500,
                       tokens_limit |-> 1000, projects |-> <<512, 1536>>]
    /\ response.content.usage.storage_used_mb = TrueDiv(2048, 1024)
    /\ response.content.can_upgrade

====
